---- MODULE Spec2Model ----
(***************************************************************************)
(* A model of audio_equalizer.py: the AudioEqualizer engine (coefficient   *)
(* synthesis, the band cascade, the gain table) and the EqualizerGUI       *)
(* handlers that drive it.                                                 *)
(*                                                                         *)
(* Numbers.  Python floats are modelled in fixed point.  Coefficients,    *)
(* angles and linear gains carry Scale units per 1.0; audio samples carry  *)
(* SampleScale units per 1.0; gains in dB are kept in tenths of a dB, so   *)
(* the skip threshold 0.1 dB is the integer 1.                             *)
(***************************************************************************)
EXTENDS Integers, Sequences, FiniteSets

Scale == 10000
SampleScale == 1000
PiS == 31416
Ln10S == 23026
TaylorTerms == 16

\* Float division n / d on scaled integers: the quotient rounded to nearest.
RDiv(n, d) ==
  LET nn == IF d < 0 THEN -n ELSE n
      dd == IF d < 0 THEN -d ELSE d
  IN  (nn + (dd \div 2)) \div dd

Abs(x) == IF x < 0 THEN -x ELSE x

RECURSIVE TaylorSum(_, _, _, _, _)
\* acc + term + the following terms of a power series in x: each next term is
\* term * x / (k+step) taken `step` times with alternating sign when alt.
TaylorSum(x, k, term, acc, kind) ==
  IF k > TaylorTerms THEN acc
  ELSE LET use  == CASE kind = "exp" -> TRUE
                     [] kind = "sin" -> k % 2 = 1
                     [] kind = "cos" -> k % 2 = 0
           sign == IF kind = "exp" THEN 1
                   ELSE IF (k \div 2) % 2 = 0 THEN 1 ELSE -1
           next == RDiv(term * x, (k + 1) * Scale)
       IN  TaylorSum(x, k + 1, next, IF use THEN acc + sign * term ELSE acc, kind)

\* np.sin, np.cos and exp on fixed-point radians / reals.
Sin(x) == TaylorSum(x, 0, Scale, 0, "sin")
Cos(x) == TaylorSum(x, 0, Scale, 0, "cos")
Exp(x) == TaylorSum(x, 0, Scale, 0, "exp")

\* 10 ** (gain_db / 20), gain_db in tenths of a dB.
Pow10Db(gain_db) == Exp(RDiv(gain_db * Ln10S, 200))

(***************************************************************************)
(* AudioEqualizer.__init__: the configuration and the band table.          *)
(***************************************************************************)
SampleRate == 44100
\* self.q_factor = 1.0, in tenths.
QFactor == 10

\* self.bands, in insertion (= iteration) order.
BandNames == << "60 Hz", "170 Hz", "310 Hz", "600 Hz", "1 kHz",
                "3 kHz", "6 kHz", "12 kHz", "14 kHz", "16 kHz" >>
BandFreq == << 60, 170, 310, 600, 1000, 3000, 6000, 12000, 14000, 16000 >>
NumBands == Len(BandNames)
Labels == { BandNames[i] : i \in 1..NumBands }

\* self.gains = {band: 0.0 for band in self.bands}
InitGains == [ l \in Labels |-> 0 ]

(***************************************************************************)
(* Bounds and input sets of the exploration.                               *)
(***************************************************************************)
\* Frames per block delivered by the stream.
BlockLen == 2
\* Blocks the stream delivers in a streaming session.
NumBlocks == 2
\* Control-thread calls (set_gain, slider moves, reset_all, toggles) in a run.
MaxCtl == 2

UnknownLabel == "not-a-band"
\* Labels the host passes to set_gain, and the sliders the user moves.
HostLabels == { "1 kHz", "6 kHz", UnknownLabel }
SliderBands == { "1 kHz", "6 kHz" }
\* Gains in tenths of a dB: +-12 dB, 0, and the two sides of the 0.1 dB threshold.
GainVals == { -120, 0, 1, 2, 120 }
\* Slider positions (from 12 to -12 in steps of 0.5), in tenths of a dB.
SliderVals == { -120, -5, 0, 120 }

(***************************************************************************)
(* create_peak_filter: the peaking biquad, normalised by a0.  sample_rate  *)
(* is self.sample_rate; q_factor is in tenths.                             *)
(***************************************************************************)
\* create_peak_filter with b left undivided by a0.
create_peak_filter_unnormalised_b(sample_rate, center_freq, gain_db, q_factor) ==
  LET A     == Pow10Db(gain_db)
      w0    == RDiv(2 * PiS * center_freq, sample_rate)
      alpha == RDiv(Sin(w0) * 10, 2 * q_factor)
      b0    == Scale + RDiv(alpha * A, Scale)
      b1    == -2 * Cos(w0)
      b2    == Scale - RDiv(alpha * A, Scale)
      a0    == Scale + RDiv(alpha * Scale, A)
      a1    == -2 * Cos(w0)
      a2    == Scale - RDiv(alpha * Scale, A)
  IN  [ b |-> << b0, b1, b2 >>,
        a |-> << Scale, RDiv(a1 * Scale, a0), RDiv(a2 * Scale, a0) >> ]

create_peak_filter(sample_rate, center_freq, gain_db, q_factor) ==
  LET gain  == Pow10Db(gain_db)
      w0    == RDiv(2 * PiS * center_freq, sample_rate)
      alpha == RDiv(Sin(w0) * 10, 2 * q_factor)
      A     == gain
      b0    == Scale + RDiv(alpha * A, Scale)
      b1    == -2 * Cos(w0)
      b2    == Scale - RDiv(alpha * A, Scale)
      a0    == Scale + RDiv(alpha * Scale, A)
      a1    == -2 * Cos(w0)
      a2    == Scale - RDiv(alpha * Scale, A)
  IN  [ b |-> << RDiv(b0 * Scale, a0), RDiv(b1 * Scale, a0), RDiv(b2 * Scale, a0) >>,
        a |-> << Scale, RDiv(a1 * Scale, a0), RDiv(a2 * Scale, a0) >> ]

(***************************************************************************)
(* scipy.signal.lfilter(b, a, x) with zero initial conditions:             *)
(*   a0 y[n] = b0 x[n] + b1 x[n-1] + b2 x[n-2] - a1 y[n-1] - a2 y[n-2]     *)
(***************************************************************************)
RECURSIVE LfilterFrom(_, _, _)
LfilterFrom(ba, x, y) ==
  IF Len(y) = Len(x) THEN y
  ELSE LET n   == Len(y) + 1
           xv(k) == IF k >= 1 THEN x[k] ELSE 0
           yv(k) == IF k >= 1 THEN y[k] ELSE 0
           acc == ba.b[1] * xv(n) + ba.b[2] * xv(n - 1) + ba.b[3] * xv(n - 2)
                  - ba.a[2] * yv(n - 1) - ba.a[3] * yv(n - 2)
       IN  LfilterFrom(ba, x, Append(y, RDiv(acc, ba.a[1])))

lfilter(ba, x) == LfilterFrom(ba, x, << >>)

(***************************************************************************)
(* Audio blocks.  A block is [mono, chans]: mono is a 1-D array (shape     *)
(* (frames,)), otherwise the array is 2-D and chans lists its columns.     *)
(***************************************************************************)
EmptyBlock == [ mono |-> TRUE, chans |-> << >> ]
NumCh(blk) == Len(blk.chans)
Frames(blk) == IF blk.chans = << >> THEN 0 ELSE Len(blk.chans[1])

\* A clip that lets every value through.
ClipIdentity(v) == v

\* np.clip(v, -1.0, 1.0) on one sample.
Clip(v) ==
  IF v < -SampleScale THEN -SampleScale
  ELSE IF v > SampleScale THEN SampleScale ELSE v

ClipBlock(blk) ==
  [ blk EXCEPT !.chans = [ c \in 1..NumCh(blk) |->
                            [ n \in 1..Len(blk.chans[c]) |-> Clip(blk.chans[c][n]) ] ] ]

\* The frames of two blocks of one shape, one after the other.
ConcatBlocks(x, y) ==
  IF x.chans = << >> THEN y
  ELSE [ x EXCEPT !.chans = [ c \in 1..NumCh(x) |-> x.chans[c] \o y.chans[c] ] ]

\* Frames lo..hi of a block.
SliceBlock(x, lo, hi) ==
  [ x EXCEPT !.chans = [ c \in 1..NumCh(x) |-> SubSeq(x.chans[c], lo, hi) ] ]

\* The test with >= in place of >.
IsSignificantInclusive(gain_db) == Abs(gain_db) >= 1

\* abs(gain_db) > 0.1
IsSignificant(gain_db) == Abs(gain_db) > 1

\* One band of the cascade applied to every channel of a block.
ApplyBand(blk, ba) ==
  [ blk EXCEPT !.chans = [ c \in 1..NumCh(blk) |-> lfilter(ba, blk.chans[c]) ] ]

RECURSIVE Cascade(_, _, _)
Cascade(tbl, blk, i) ==
  IF i > NumBands THEN blk
  ELSE LET gain_db == tbl[BandNames[i]]
       IN  Cascade(tbl,
                   IF IsSignificant(gain_db)
                   THEN ApplyBand(blk, create_peak_filter(SampleRate, BandFreq[i],
                                                          gain_db, QFactor))
                   ELSE blk,
                   i + 1)

\* apply_equalizer run without interruption on gain table tbl.
apply_equalizer(tbl, audio_data) == ClipBlock(Cascade(tbl, audio_data, 1))

\* set_gain writing the value under every key.
set_gain_clobber(tbl, band_name, gain_db) ==
  IF band_name \in DOMAIN tbl THEN [ k \in DOMAIN tbl |-> gain_db ] ELSE tbl

\* set_gain: the gain table after the call.
set_gain(tbl, band_name, gain_db) ==
  IF band_name \in DOMAIN tbl THEN [ tbl EXCEPT ![band_name] = gain_db ] ELSE tbl

(***************************************************************************)
(* State.                                                                  *)
(***************************************************************************)
VARIABLES
  gains,        \* self.gains: label -> gain in tenths of a dB
  is_running,   \* self.is_running
  stream,       \* self.stream: "none" (no attribute), "created", "active", "closed"
  sliders,      \* EqualizerGUI.sliders: the position of each band's slider
  labels,       \* EqualizerGUI.labels: the text of each band's value label
  btn_text,     \* start_btn's text
  status_text,  \* status_label's text
  ri,           \* reset_all's loop: the band it has reached, 0 outside reset_all
  pc,           \* the audio thread: "idle", "band", "filter" or "clip"
  audio_data,   \* apply_equalizer's argument
  output,       \* apply_equalizer's local output
  bi,           \* the band the for loop of apply_equalizer is at
  gain_db,      \* apply_equalizer's local gain_db
  ba,           \* apply_equalizer's locals b, a
  ch,           \* the channel the inner loop is at
  outdata,      \* what the last call returned (audio_callback's outdata)
  outcome,      \* how the last set_gain / create_peak_filter call ended
  last_known,   \* whether the last set_gain call's band_name was a band
  used,         \* per band visited in this call: the gain read, the coefficients applied
  held,         \* per band: the values its gain table entry held during this call
  dirty,        \* the gain table changed since this call began
  nctl,         \* control-thread calls so far
  resets,       \* reset_all calls completed in a row
  reset_from,   \* the gain table the first of them found
  after_reset,  \* the GUI and gain state the first of them left
  signal,       \* the session's whole input signal
  sent,         \* blocks of it the stream has delivered
  emitted,      \* the output blocks so far, one after the other
  cpf_args,     \* a create_peak_filter call's arguments
  cpf_result    \* and its result

vars == << gains, is_running, stream, sliders, labels, btn_text, status_text, ri,
           pc, audio_data, output, bi, gain_db, ba, ch, outdata, outcome,
           last_known, used, held, dirty, nctl, resets, reset_from, after_reset,
           signal, sent, emitted, cpf_args, cpf_result >>

guiVars    == << sliders, labels, btn_text, status_text >>
streamVars == << is_running, stream >>
audioVars  == << pc, audio_data, output, bi, gain_db, ba, ch, outdata, used >>
sessVars   == << signal, sent, emitted >>
cpfVars    == << cpf_args, cpf_result >>

NoCoefs == [ b |-> << >>, a |-> << >> ]
\* value_label's text: "0 dB" as written by create_widgets and reset_all, or
\* f"{gain:+.1f} dB" as written by on_slider_change.
ZeroLabel == [ formatted |-> FALSE, gain |-> 0 ]
GainLabel(gain) == [ formatted |-> TRUE, gain |-> gain ]
NoArgs == [ sample_rate |-> SampleRate, center_freq |-> BandFreq[1],
            gain_db |-> 0, q_factor |-> QFactor ]

\* AudioEqualizer.__init__ and EqualizerGUI.create_widgets; sig is the signal
\* the session will be fed, args the arguments of the synthesis call to come.
InitWith(sig, args) ==
  /\ gains = InitGains
  /\ is_running = FALSE
  /\ stream = "none"
  /\ sliders = [ l \in Labels |-> 0 ]
  /\ labels = [ l \in Labels |-> ZeroLabel ]
  /\ btn_text = "Baslat"               \* the Turkish texts, in ASCII
  /\ status_text = "Durum: Durduruldu"
  /\ ri = 0
  /\ pc = "idle"
  /\ audio_data = EmptyBlock
  /\ output = EmptyBlock
  /\ bi = 0
  /\ gain_db = 0
  /\ ba = NoCoefs
  /\ ch = 0
  /\ outdata = EmptyBlock
  /\ outcome = "none"
  /\ last_known = TRUE
  /\ used = << >>
  /\ held = [ i \in 1..NumBands |-> {} ]
  /\ dirty = FALSE
  /\ nctl = 0
  /\ resets = 0
  /\ reset_from = << >>
  /\ after_reset = << >>
  /\ signal = sig
  /\ sent = 0
  /\ emitted = EmptyBlock
  /\ cpf_args = args
  /\ cpf_result = NoCoefs

Init == InitWith(EmptyBlock, NoArgs)

(***************************************************************************)
(* The control thread.                                                     *)
(***************************************************************************)
\* The bookkeeping of a write to the gain table by the control thread.
NoteWrite(new) ==
  /\ dirty' = (dirty \/ new # gains)
  /\ held' = IF pc = "idle" THEN held
             ELSE [ i \in 1..NumBands |->
                      IF BandNames[i] \in DOMAIN new
                      THEN held[i] \cup { new[BandNames[i]] } ELSE held[i] ]

\* The host calls eq.set_gain(band_name, value).
CallSetGain(band_name, value) ==
  /\ ri = 0
  /\ gains' = set_gain(gains, band_name, value)
  /\ NoteWrite(gains')
  /\ outcome' = "returned"
  /\ last_known' = (band_name \in Labels)
  /\ UNCHANGED << guiVars, streamVars, ri, audioVars, sessVars, cpfVars >>

\* EqualizerGUI.on_slider_change(band_name, value), Tk having moved the slider.
on_slider_change(band_name, value) ==
  /\ ri = 0
  /\ sliders' = [ sliders EXCEPT ![band_name] = value ]
  /\ gains' = set_gain(gains, band_name, value)
  /\ NoteWrite(gains')
  /\ labels' = [ labels EXCEPT ![band_name] = GainLabel(value) ]
  /\ outcome' = "returned"
  /\ last_known' = (band_name \in Labels)
  /\ UNCHANGED << btn_text, status_text, streamVars, ri, audioVars, sessVars,
                  cpfVars >>

\* A control-thread call that counts against MaxCtl.
Counted == nctl < MaxCtl /\ nctl' = nctl + 1

GuiState == << gains, sliders, labels >>

\* The iteration without its set_gain call: only the widgets are reset.
ResetIterationSliderOnly(i) ==
  /\ sliders' = [ sliders EXCEPT ![BandNames[i]] = 0 ]
  /\ gains' = gains
  /\ NoteWrite(gains')
  /\ labels' = [ labels EXCEPT ![BandNames[i]] = ZeroLabel ]
  /\ UNCHANGED << outcome, last_known >>
  /\ ri' = IF i = NumBands THEN 0 ELSE i

\* One iteration of reset_all's loop over self.sliders, at band i.
ResetIteration(i) ==
  /\ sliders' = [ sliders EXCEPT ![BandNames[i]] = 0 ]
  /\ gains' = set_gain(gains, BandNames[i], 0)
  /\ NoteWrite(gains')
  /\ labels' = [ labels EXCEPT ![BandNames[i]] = ZeroLabel ]
  /\ outcome' = "returned"
  /\ last_known' = TRUE
  /\ ri' = IF i = NumBands THEN 0 ELSE i

\* EqualizerGUI.reset_all is entered and its first iteration runs.
ResetAllBegin ==
  /\ ri = 0
  /\ ResetIteration(1)
  /\ UNCHANGED << btn_text, status_text, streamVars, audioVars, sessVars, cpfVars >>

\* The following iterations; the last one returns.
ResetAllStep ==
  /\ ri > 0
  /\ ResetIteration(ri + 1)
  /\ UNCHANGED << btn_text, status_text, streamVars, audioVars, sessVars, cpfVars >>

\* AudioEqualizer.start_stream: sd.Stream(...) or stream.start() may raise; the
\* except clause swallows the exception.
start_stream(how) ==
  CASE how = "ok" -> /\ stream' = "active"
                     /\ is_running' = TRUE
    [] how = "ctor_raises" -> UNCHANGED << stream, is_running >>
    [] how = "start_raises" -> /\ stream' = "created"
                               /\ UNCHANGED is_running

\* AudioEqualizer.stop_stream.
stop_stream ==
  IF stream # "none"
  THEN /\ stream' = "closed"
       /\ is_running' = FALSE
  ELSE UNCHANGED << stream, is_running >>

\* EqualizerGUI.toggle_equalizer, a click on start_btn.
toggle_equalizer(how) ==
  /\ ri = 0
  /\ IF ~is_running
     THEN /\ start_stream(how)
          /\ btn_text' = "Durdur"
          /\ status_text' = "Durum: Calisiyor"
     ELSE /\ stop_stream
          /\ btn_text' = "Baslat"
          /\ status_text' = "Durum: Durduruldu"
  /\ UNCHANGED << gains, sliders, labels, ri, audioVars, outcome, last_known, held,
                  dirty, sessVars, cpfVars >>

StartOutcomes == { "ok", "ctor_raises", "start_raises" }

(***************************************************************************)
(* The audio thread: apply_equalizer, one access to shared state per step. *)
(***************************************************************************)
resetVars == << resets, reset_from, after_reset >>
ctlVars == << gains, guiVars, streamVars, ri, outcome, last_known, resetVars >>

\* audio_callback is handed indata and a fresh outdata, and enters
\* apply_equalizer(indata.copy()): output = audio_data.copy().
BeginCall(indata) ==
  /\ pc = "idle"
  /\ audio_data' = indata
  /\ output' = indata
  /\ outdata' = EmptyBlock
  /\ bi' = 1
  /\ pc' = "band"
  /\ used' = << >>
  /\ held' = [ i \in 1..NumBands |-> { gains[BandNames[i]] } ]
  /\ dirty' = FALSE
  /\ UNCHANGED << gain_db, ba, ch, ctlVars, cpfVars >>

\* The for loop moves to the next band, or falls through to the clipping.
NextBand ==
  IF bi = NumBands
  THEN /\ pc' = "clip"
       /\ bi' = bi
  ELSE /\ pc' = "band"
       /\ bi' = bi + 1

\* The head of one iteration: gain_db = self.gains[band_name], the test,
\* and create_peak_filter when the gain matters.
ProcBand ==
  /\ pc = "band"
  /\ gain_db' = gains[BandNames[bi]]
  /\ used' = Append(used, [ gain |-> gain_db', coefs |-> << >> ])
  /\ IF IsSignificant(gain_db')
     THEN /\ ba' = create_peak_filter(SampleRate, BandFreq[bi], gain_db', QFactor)
          /\ ch' = 1
          /\ pc' = "filter"
          /\ bi' = bi
     ELSE /\ NextBand
          /\ UNCHANGED << ba, ch >>
  /\ UNCHANGED << audio_data, output, outdata, held, dirty, ctlVars, sessVars,
                  cpfVars >>

\* Coefficients made anew from the gain table at each lfilter call.
FilterCoefsReread ==
  create_peak_filter(SampleRate, BandFreq[bi], gains[BandNames[bi]], QFactor)

\* The b, a that a signal.lfilter call of this band is given.
FilterCoefs == ba

\* One signal.lfilter call: the whole 1-D array, or column ch of a 2-D one.
ProcFilter ==
  /\ pc = "filter"
  /\ LET coefs == FilterCoefs
     IN  /\ output' = [ output EXCEPT !.chans[ch] = lfilter(coefs, @) ]
         /\ used' = [ used EXCEPT ![bi].coefs = Append(@, coefs) ]
  /\ IF output.mono \/ ch = NumCh(output)
     THEN /\ NextBand
          /\ ch' = ch
     ELSE /\ ch' = ch + 1
          /\ UNCHANGED << pc, bi >>
  /\ UNCHANGED << audio_data, gain_db, ba, outdata, held, dirty, ctlVars, sessVars,
                  cpfVars >>

\* output = np.clip(output, -1.0, 1.0); return output; outdata[:] = processed.
\* The call's locals end with it.
ProcClip ==
  /\ pc = "clip"
  /\ outdata' = ClipBlock(output)
  /\ output' = EmptyBlock
  /\ bi' = 0
  /\ gain_db' = 0
  /\ ba' = NoCoefs
  /\ ch' = 0
  /\ pc' = "idle"
  /\ UNCHANGED << audio_data, used, held, dirty, ctlVars, cpfVars >>

(***************************************************************************)
(* Spec: the engine under concurrency.  The control thread calls set_gain  *)
(* and reset_all while the audio thread runs apply_equalizer on the        *)
(* blocks it is handed.                                                    *)
(***************************************************************************)
HalfScale == SampleScale \div 2
SigFull(len) == [ n \in 1..len |-> SampleScale ]
SigMixed(len) == [ n \in 1..len |-> IF n % 2 = 1 THEN HalfScale ELSE -SampleScale ]
SigPulse(len) == [ n \in 1..len |-> IF n = 1 THEN -HalfScale ELSE 0 ]
\* A signal that starts beyond full scale.
SigHot(len) == [ n \in 1..len |-> IF n = 1 THEN SampleScale + HalfScale ELSE -HalfScale ]

InputBlocks ==
  { [ mono |-> TRUE,  chans |-> << SigMixed(BlockLen) >> ],
    [ mono |-> TRUE,  chans |-> << SigHot(BlockLen) >> ],
    [ mono |-> FALSE, chans |-> << SigFull(BlockLen), SigPulse(BlockLen) >> ] }

HostSetGain ==
  /\ Counted
  /\ \E l \in HostLabels, g \in GainVals : CallSetGain(l, g)
  /\ UNCHANGED resetVars

HostResetAll ==
  /\ Counted
  /\ ResetAllBegin
  /\ UNCHANGED resetVars

HostResetStep ==
  /\ ResetAllStep
  /\ UNCHANGED << nctl, resetVars >>

AudioCallback ==
  /\ \E blk \in InputBlocks : BeginCall(blk)
  /\ UNCHANGED << sessVars, nctl >>

AudioBand == ProcBand /\ UNCHANGED nctl

AudioFilter == ProcFilter /\ UNCHANGED nctl

AudioClip == ProcClip /\ UNCHANGED << sessVars, nctl >>

Next ==
  \/ HostSetGain
  \/ HostResetAll
  \/ HostResetStep
  \/ AudioCallback
  \/ AudioBand
  \/ AudioFilter
  \/ AudioClip

Spec == Init /\ [][Next]_vars

(***************************************************************************)
(* SpecStream: a streaming session.  The host sets gains, then the stream  *)
(* delivers a signal block by block and collects the output blocks; the    *)
(* gains stay as they are once the first block is in.                      *)
(***************************************************************************)
Signals ==
  { [ mono |-> TRUE,  chans |-> << SigFull(NumBlocks * BlockLen) >> ],
    [ mono |-> FALSE, chans |-> << SigMixed(NumBlocks * BlockLen),
                                   SigPulse(NumBlocks * BlockLen) >> ] }

InitStream == \E sig \in Signals : InitWith(sig, NoArgs)

StreamSetGain ==
  /\ sent = 0
  /\ pc = "idle"
  /\ HostSetGain

\* sounddevice calls audio_callback with the next block_size frames.
StreamCallback ==
  /\ sent < NumBlocks
  /\ BeginCall(SliceBlock(signal, sent * BlockLen + 1, (sent + 1) * BlockLen))
  /\ sent' = sent + 1
  /\ UNCHANGED << signal, emitted, nctl >>

StreamBand == ProcBand /\ UNCHANGED nctl

StreamFilter == ProcFilter /\ UNCHANGED nctl

\* The call returns and the device takes outdata.
StreamClip ==
  /\ ProcClip
  /\ emitted' = ConcatBlocks(emitted, outdata')
  /\ UNCHANGED << signal, sent, nctl >>

NextStream ==
  \/ StreamSetGain
  \/ StreamCallback
  \/ StreamBand
  \/ StreamFilter
  \/ StreamClip

SpecStream == InitStream /\ [][NextStream]_vars

(***************************************************************************)
(* SpecGui: the handlers of EqualizerGUI on the Tk thread.                 *)
(***************************************************************************)
\* A handler other than reset_all ends a run of reset_all calls.
NoReset ==
  /\ resets' = 0
  /\ reset_from' = << >>
  /\ after_reset' = << >>

\* reset_all's loop has run its iteration at band i: what the first call of a
\* run found and left, and how many calls of the run have returned.
NoteReset(i) ==
  /\ reset_from' = IF i = 1 /\ resets = 0 THEN gains ELSE reset_from
  /\ IF i = NumBands
     THEN /\ resets' = IF resets < 2 THEN resets + 1 ELSE resets
          /\ after_reset' = IF resets = 0 THEN GuiState' ELSE after_reset
     ELSE UNCHANGED << resets, after_reset >>

SliderMove ==
  /\ \E l \in SliderBands, v \in SliderVals : on_slider_change(l, v)
  /\ NoReset
  /\ UNCHANGED nctl

ResetClick ==
  /\ ResetAllBegin
  /\ NoteReset(1)
  /\ UNCHANGED nctl

ResetLoop ==
  /\ ResetAllStep
  /\ NoteReset(ri + 1)
  /\ UNCHANGED nctl

ToggleClick ==
  /\ \E how \in StartOutcomes : toggle_equalizer(how)
  /\ NoReset
  /\ UNCHANGED nctl

NextGui ==
  \/ SliderMove
  \/ ResetClick
  \/ ResetLoop
  \/ ToggleClick

SpecGui == Init /\ [][NextGui]_vars

(***************************************************************************)
(* SpecSynth: one call of create_peak_filter on arguments drawn at the     *)
(* start, in and out of the supported domain.                              *)
(***************************************************************************)
SampleRates == { 44100, 48000 }
SynthFreqs == { BandFreq[i] : i \in 1..NumBands } \cup { 0, -1000, 22050 }
SynthQs == { 5, 10, 20 }
SynthArgs ==
  [ sample_rate : SampleRates, center_freq : SynthFreqs,
    gain_db : GainVals, q_factor : SynthQs ]

\* 0 < f0 < fs / 2
FreqInRange(args) ==
  /\ 0 < args.center_freq
  /\ 2 * args.center_freq < args.sample_rate

InitSynth == \E args \in SynthArgs : InitWith(EmptyBlock, args)

CallCreatePeakFilter ==
  /\ outcome = "none"
  /\ cpf_result' = create_peak_filter(cpf_args.sample_rate, cpf_args.center_freq,
                                      cpf_args.gain_db, cpf_args.q_factor)
  /\ outcome' = "returned"
  /\ UNCHANGED << gains, guiVars, streamVars, ri, audioVars, last_known, held, dirty,
                  nctl, resetVars, sessVars, cpf_args >>

NextSynth == CallCreatePeakFilter

SpecSynth == InitSynth /\ [][NextSynth]_vars

(***************************************************************************)
(* Properties.                                                             *)
(***************************************************************************)
\* An apply_equalizer call has returned: outdata is its result, audio_data its
\* argument and used its record of the bands.
CallDone == pc = "idle" /\ Len(used) = NumBands

SamplesOf(blk) == { blk.chans[c][n] : c \in 1..NumCh(blk), n \in 1..Frames(blk) }
SameShape(x, y) ==
  /\ x.mono = y.mono
  /\ NumCh(x) = NumCh(y)
  /\ \A c \in 1..NumCh(x) : Len(x.chans[c]) = Len(y.chans[c])

\* Samples within 0.01 of each other.
Tolerance == SampleScale \div 100
CloseBlocks(x, y) ==
  /\ SameShape(x, y)
  /\ \A c \in 1..NumCh(x) : \A n \in 1..Len(x.chans[c]) :
       Abs(x.chans[c][n] - y.chans[c][n]) <= Tolerance

InRange(blk) == \A v \in SamplesOf(blk) : -SampleScale <= v /\ v <= SampleScale

\* C1. Output range: whatever gains were set before or during a call on a block
\* with samples in [-1, 1], the block the call returns has the argument's shape
\* and every sample of it lies in [-1.0, 1.0].
C1_OutputRange ==
  (CallDone /\ InRange(audio_data)) =>
    /\ SameShape(outdata, audio_data)
    /\ InRange(outdata)

\* A call returned a full-scale sample where the input was below full scale: the
\* cascade had driven it past 1.0 and the clipping brought it back.
C1_Witness ==
  /\ CallDone
  /\ InRange(audio_data)
  /\ \E c \in 1..NumCh(outdata) : \E n \in 1..Frames(outdata) :
       /\ Abs(audio_data.chans[c][n]) < SampleScale
       /\ Abs(outdata.chans[c][n]) = SampleScale

\* C2. Block continuity: with the gains fixed for the whole session, the output
\* blocks of the successive calls, one after the other, are within tolerance of
\* what one call on the whole signal returns.
C2_BlockContinuity ==
  (sent = NumBlocks /\ pc = "idle") =>
    CloseBlocks(emitted, apply_equalizer(gains, signal))

\* C3. A set_gain call with a label that is not a band ends by
\* signalling UnknownBand, and leaves the gain table as it was.
C3_UnknownBandSignalled ==
  [][ \A g \in GainVals :
        CallSetGain(UnknownLabel, g) =>
          (outcome' = "UnknownBand" /\ gains' = gains) ]_vars

\* What set_gain does with a label that is not a band: it returns normally,
\* signalling nothing, and leaves the gain table (its keys and its values) as
\* it was.
UnknownBandIgnored ==
  [][ \A g \in GainVals :
        CallSetGain(UnknownLabel, g) =>
          (outcome' = "returned" /\ gains' = gains /\ DOMAIN gains' = Labels) ]_vars

\* The last set_gain call had an unknown label, and found gains set.
UnknownBandCalled ==
  /\ ~last_known
  /\ outcome = "returned"
  /\ gains # InitGains

\* C4. One gain per band and call: the gain a call reads for a band is a value
\* the band's entry held during the call; the band is filtered exactly when
\* that value is past the threshold, and every channel of the block is
\* filtered with the coefficients of that one value, however set_gain calls
\* interleave with the call.
C4_OneGainPerBand ==
  \A i \in 1..Len(used) :
    LET u        == used[i]
        finished == i < Len(used) \/ pc \in { "clip", "idle" }
        wanted   == IF Abs(u.gain) > 1
                    THEN (IF audio_data.mono THEN 1 ELSE NumCh(audio_data))
                    ELSE 0
    IN  /\ u.gain \in held[i]
        /\ Len(u.coefs) <= wanted
        /\ finished => Len(u.coefs) = wanted
        /\ \A k \in 1..Len(u.coefs) :
             u.coefs[k] = create_peak_filter(SampleRate, BandFreq[i], u.gain, QFactor)

\* A set_gain call changed the band's entry after the call read it, between the
\* filtering of the first channel and that of the second.
C4_Witness ==
  /\ pc = "filter"
  /\ ch = 2
  /\ Len(used[bi].coefs) = 1
  /\ gains[BandNames[bi]] # gain_db
  /\ Abs(gains[BandNames[bi]]) > 1

\* C5. Pass-through: a band is filtered in a call only when the gain read for
\* it is above 0.1 dB in magnitude, and always then; a call that finds every
\* gain within 0.1 dB returns clip(x, -1, 1) of its argument x.
C5_PassThrough ==
  CallDone =>
    /\ \A i \in 1..NumBands : (used[i].coefs # << >>) <=> (Abs(used[i].gain) > 1)
    /\ (\A i \in 1..NumBands : Abs(used[i].gain) <= 1) => outdata = ClipBlock(audio_data)
    /\ (~dirty /\ \A l \in Labels : Abs(gains[l]) <= 1) => outdata = ClipBlock(audio_data)

\* A call ran with one gain at 0.1 dB exactly and the others within it, on a
\* block with a sample beyond full scale: what it returned is the block, clipped.
C5_Witness ==
  /\ CallDone
  /\ ~dirty
  /\ \E l \in Labels : gains[l] = 1
  /\ \A l \in Labels : Abs(gains[l]) <= 1
  /\ ~InRange(audio_data)
  /\ outdata # audio_data
  /\ -HalfScale \in SamplesOf(outdata)

\* C6. create_peak_filter called with f0 outside (0, fs/2) ends by signalling
\* InvalidParameter and returns no coefficients.
C6_OutOfRangeRejected ==
  (outcome # "none" /\ ~FreqInRange(cpf_args)) =>
    (outcome = "InvalidParameter" /\ cpf_result = NoCoefs)

\* Coefficients within 0.001 of each other.
CoefTolerance == Scale \div 1000
Near(x, y) == Abs(x - y) <= CoefTolerance

SynthDoneAtZeroGain ==
  /\ outcome = "returned"
  /\ FreqInRange(cpf_args)
  /\ cpf_args.gain_db = 0

C8_ResetAll ==
  (resets >= 1 /\ ri = 0) =>
    /\ \A l \in Labels : gains[l] = 0 /\ sliders[l] = 0 /\ labels[l] = ZeroLabel
    /\ resets = 2 => GuiState = after_reset

\* Two reset_all calls in a row returned, the first having found gains set.
C8_Witness ==
  /\ resets = 2
  /\ ri = 0
  /\ \A l \in SliderBands : reset_from[l] # 0

\* C9. The gain table changes one entry at a time and only by set_gain: a
\* set_gain call with a known label sets that entry and no other, no step of
\* apply_equalizer changes any entry, and the keys stay the 10 band labels.
C9_GainTableFrame ==
  [][ /\ DOMAIN gains' = Labels
      /\ Cardinality({ k \in Labels : gains'[k] # gains[k] }) <= 1
      /\ \A l \in Labels, g \in GainVals :
           CallSetGain(l, g) =>
             /\ gains'[l] = g
             /\ \A k \in Labels \ {l} : gains'[k] = gains[k]
      /\ (pc' # pc \/ bi' # bi \/ ch' # ch \/ output' # output) => gains' = gains
    ]_vars

\* A call returned with two bands set to different gains: the second set_gain
\* left the first band's entry alone.
C9_Witness ==
  /\ CallDone
  /\ \E k, l \in Labels : gains[k] # 0 /\ gains[l] # 0 /\ gains[k] # gains[l]

\* C10. The button and the status line show "running" exactly when
\* eq.is_running is True.
C10_DisplayAgreesWithEngine ==
  /\ (btn_text = "Durdur") <=> is_running
  /\ (status_text = "Durum: Calisiyor") <=> is_running
====
